---- MODULE Spec2Model ----
(***************************************************************************)
(* Model of static/service-worker.js: the install, activate and fetch      *)
(* handlers of the attendance tracker's service worker, together with the  *)
(* host primitives they call (CacheStorage, Cache, fetch, respondWith).    *)
(***************************************************************************)
EXTENDS Integers, Sequences, FiniteSets, TLC

(***************************************************************************)
(* Bounds of the model.                                                    *)
(***************************************************************************)
\* number of fetch events dispatched to the worker, each handled by its own
\* invocation of the fetch handler; all of them can be in flight at once
MaxHandlers == 2
\* number of distinct bodies the server can answer with
MaxBody == 1

(***************************************************************************)
(* Constants of the script.                                                *)
(***************************************************************************)
CACHE_VERSION == "attendance-v1"
STATIC_CACHE == "static-" \o CACHE_VERSION
RUNTIME_CACHE == "runtime-" \o CACHE_VERSION
APP_SHELL == <<"/", "/static/manifest.json">>

\* names left behind by the previous build of the script
OLD_STATIC == "static-attendance-v0"
OLD_RUNTIME == "runtime-attendance-v0"
Names == {STATIC_CACHE, RUNTIME_CACHE, OLD_STATIC, OLD_RUNTIME}

(***************************************************************************)
(* Requests and responses.                                                 *)
(***************************************************************************)
Methods == {"GET", "POST"}
\* request URLs, as pathname and search part
Urls == { [pathname |-> "/", search |-> ""],
          [pathname |-> "/", search |-> "?source=pwa"],
          [pathname |-> "/static/app.js", search |-> ""],
          [pathname |-> "/attendance", search |-> ""],
          [pathname |-> "/other", search |-> ""] }
NoUrl == [pathname |-> "", search |-> ""]
\* the requests the pages of the application send
Requests ==
    {[method |-> "GET", url |-> u] : u \in Urls}
      \cup {[method |-> "POST", url |-> u] :
                u \in {v \in Urls : v.search = "" /\ v.pathname # "/other"}}

\* request.url: the identity a cache entry is stored and matched under
Key(url) == url.pathname \o url.search
Keys == {Key(u) : u \in Urls} \cup {APP_SHELL[i] : i \in 1..Len(APP_SHELL)}

\* the absent response: what a lookup that finds nothing resolves with
Undefined == [status |-> 0, body |-> 0]
\* what the previous build left in its namespaces
OldResponse == [status |-> 200, body |-> 0]
\* what the server can answer
NetResponses == {[status |-> 200, body |-> b] : b \in 1..MaxBody}
                  \cup {[status |-> 500, body |-> 0]}
Responses == NetResponses \cup {OldResponse}

\* Response.ok
Ok(res) == res.status >= 200 /\ res.status <= 299

\* String.prototype.startsWith
StartsWith(s, prefix) ==
    Len(s) >= Len(prefix) /\ SubSeq(s, 1, Len(prefix)) = prefix

(***************************************************************************)
(* Host cache primitives.  The cache storage is the sequence of the live   *)
(* namespace names in creation order, and the entries of each namespace.   *)
(***************************************************************************)
EmptyCache == [k \in Keys |-> Undefined]

Live(ord) == {ord[i] : i \in 1..Len(ord)}

\* caches.open(name): creates the namespace when it does not exist
CachesOpen(ord, name) == IF name \in Live(ord) THEN ord ELSE Append(ord, name)

\* caches.delete(name): drops the namespace and every entry in it
CachesDelete(ord, name) == SelectSeq(ord, LAMBDA n : n # name)

\* cache.put(request, response)
CachePut(ents, name, key, res) ==
    [ents EXCEPT ![name] = [@ EXCEPT ![key] = res]]

\* caches.match(request), on the cache storage: the entry of the first
\* namespace, in creation order, that holds one for the request
RECURSIVE MatchFrom(_, _, _, _)
MatchFrom(ord, ents, key, i) ==
    IF i > Len(ord) THEN Undefined
    ELSE IF ents[ord[i]][key] # Undefined THEN ents[ord[i]][key]
    ELSE MatchFrom(ord, ents, key, i + 1)

CachesMatch(ord, ents, key) == MatchFrom(ord, ents, key, 1)

(***************************************************************************)
(* State.                                                                  *)
(***************************************************************************)
VARIABLES
    order,        \* live namespace names, in creation order
    entries,      \* entries[name][key]: stored response, or Undefined
    installPc,    \* position of the install handler's promise chain
    shellRes,     \* addAll: what the network answered for each resource
    shellFetches, \* addAll: network fetches issued for each resource
    skipWaiting,  \* self.skipWaiting() has been called
    activatePc,   \* position of the activate handler's promise chain
    delPending,   \* names caches.delete() was called with, not yet settled
    claimed,      \* self.clients.claim() has been called
    handlers,     \* one record per fetch handler invocation
    lastOk        \* per dynamic request, the latest successful network response

cacheVars == <<order, entries>>
installVars == <<installPc, shellRes, shellFetches, skipWaiting>>
activateVars == <<activatePc, delPending, claimed>>
fetchVars == <<handlers, lastOk>>
vars == <<order, entries, installPc, shellRes, shellFetches, skipWaiting,
          activatePc, delPending, claimed, handlers, lastOk>>

ShellIdx == 1..Len(APP_SHELL)
Pending == [status |-> -1, body |-> 0]
Failed == [status |-> -2, body |-> 0]

\* what the previous build stored under each of its names
OldEntries(name) ==
    [k \in Keys |->
        IF name = OLD_STATIC /\ k \in {"/", "/static/manifest.json"}
            THEN OldResponse
        ELSE IF name \in {OLD_RUNTIME, RUNTIME_CACHE} /\ k = "/attendance"
            THEN OldResponse
        ELSE IF name = STATIC_CACHE /\ k = "/static/manifest.json"
            THEN OldResponse
        ELSE Undefined]

\* the namespaces found at start-up, in creation order: none (first
\* install), those of the previous build (upgrade), or those of this build
\* (the same version installed again)
InitOrders ==
    { <<>>, <<OLD_STATIC, OLD_RUNTIME>>, <<STATIC_CACHE, RUNTIME_CACHE>> }

(***************************************************************************)
(* Request classification of the fetch handler.                            *)
(***************************************************************************)
IsRoot(url) == url.pathname = "/"

IsAPI(url) == \/ StartsWith(url.pathname, "/attendance")
              \/ StartsWith(url.pathname, "/export.xlsx")
              \/ StartsWith(url.pathname, "/justifications_report.xlsx")

\* a static prefix without its trailing slash
IsStaticLoose(url) == StartsWith(url.pathname, "/static")

IsStatic(url) == StartsWith(url.pathname, "/static/")

ApiKeys == {Key(u) : u \in {v \in Urls : IsAPI(v)}}

\* a classification without the method guard
BranchNoGuard(method, url) ==
    IF IsRoot(url) THEN "root"
    ELSE IF IsAPI(url) THEN "api"
    ELSE IF IsStatic(url) THEN "static"
    ELSE "unmatched"

\* the branch of the fetch handler a request is handled by
Branch(method, url) ==
    IF method # "GET" THEN "guard"
    ELSE IF IsRoot(url) THEN "root"
    ELSE IF IsAPI(url) THEN "api"
    ELSE IF IsStatic(url) THEN "static"
    ELSE "unmatched"

\* a store that always goes to the static namespace
StoreNameStaticOnly(branch) == STATIC_CACHE

\* the namespace a branch stores the network response into
StoreName(branch) == IF branch = "api" THEN RUNTIME_CACHE ELSE STATIC_CACHE

\* a store that does not look at the status
StoresAlways(branch, res) == TRUE

\* a store made by the dynamic branch only
StoresApiOnly(branch, res) == branch = "api" /\ Ok(res)

\* whether a branch stores the network response it got
Stores(branch, res) == IF branch = "api" THEN Ok(res) ELSE TRUE

(***************************************************************************)
(* Fetch handler invocations.                                              *)
(*   pc      idle | match | fetch | fallback | settled | passthrough       *)
(*   out     what the promise given to respondWith settled with:           *)
(*           none | response | undefined | rejected                        *)
(*   store   the fire-and-forget chain caches.open(..).then(put):          *)
(*           none | open | spent | put | stored | failed                   *)
(*           (spent: still opening, and the caller has read the body)      *)
(***************************************************************************)
Slots == 1..MaxHandlers

IdleHandler ==
    [ method |-> "GET", url |-> NoUrl, pc |-> "idle",
      looked |-> FALSE, cached |-> Undefined,
      fetches |-> 0, res |-> Undefined,
      out |-> "none", delivered |-> Undefined,
      store |-> "none" ]

BranchOf(h) == Branch(handlers[h].method, handlers[h].url)
KeyOf(h) == Key(handlers[h].url)

(***************************************************************************)
(* Initial state: the worker script has been fetched, nothing has run.     *)
(***************************************************************************)
Init ==
    /\ order \in InitOrders
    /\ entries = [n \in Names |->
                    IF n \in Live(order) THEN OldEntries(n) ELSE EmptyCache]
    /\ installPc = "start"
    /\ shellRes = [i \in ShellIdx |-> Pending]
    /\ shellFetches = [i \in ShellIdx |-> 0]
    /\ skipWaiting = FALSE
    /\ activatePc = "start"
    /\ delPending = {}
    /\ claimed = FALSE
    /\ handlers = [h \in Slots |-> IdleHandler]
    /\ lastOk = [k \in ApiKeys |-> Undefined]

(***************************************************************************)
(* install handler                                                         *)
(***************************************************************************)
\* caches.open(STATIC_CACHE) resolves and cache.addAll(APP_SHELL) issues one
\* network fetch per resource
InstallOpen ==
    /\ installPc = "start"
    /\ order' = CachesOpen(order, STATIC_CACHE)
    /\ shellFetches' = [i \in ShellIdx |-> shellFetches[i] + 1]
    /\ installPc' = "adding"
    /\ UNCHANGED <<entries, shellRes, skipWaiting, activateVars, fetchVars>>

\* what fetching a resource of the list can end with; the body the server
\* has at install time is body 1
InstallOutcomes ==
    {[status |-> 200, body |-> 1], [status |-> 500, body |-> 0], Failed}

\* an addAll that stores each response as it arrives
InstallFetchedStoring(i, res) ==
    /\ installPc = "adding"
    /\ shellRes[i] = Pending
    /\ shellRes' = [shellRes EXCEPT ![i] = res]
    /\ entries' = IF res \in NetResponses /\ Ok(res)
                     THEN CachePut(entries, STATIC_CACHE, APP_SHELL[i], res)
                     ELSE entries
    /\ UNCHANGED <<order, installPc, shellFetches, skipWaiting,
                   activateVars, fetchVars>>

\* the network answers, or fails, for one resource of the list
InstallFetched(i, res) ==
    /\ installPc = "adding"
    /\ shellRes[i] = Pending
    /\ shellRes' = [shellRes EXCEPT ![i] = res]
    /\ UNCHANGED <<cacheVars, installPc, shellFetches, skipWaiting,
                   activateVars, fetchVars>>

\* a batch that stores the last resource of the list only
AddAllLastOnly(ents) ==
    [ents EXCEPT ![STATIC_CACHE] =
        [@ EXCEPT ![APP_SHELL[Len(APP_SHELL)]] = shellRes[Len(APP_SHELL)]]]

\* the batch of addAll: every response of the list, stored at once
AddAllBatch(ents) ==
    [ents EXCEPT ![STATIC_CACHE] =
        [k \in Keys |->
            IF \E i \in ShellIdx : APP_SHELL[i] = k
                THEN shellRes[CHOOSE i \in ShellIdx : APP_SHELL[i] = k]
                ELSE @[k]]]

\* addAll resolves: every resource was fetched with an ok status
InstallCommit ==
    /\ installPc = "adding"
    /\ \A i \in ShellIdx : shellRes[i] \in NetResponses /\ Ok(shellRes[i])
    /\ entries' = AddAllBatch(entries)
    /\ installPc' = "added"
    /\ UNCHANGED <<order, shellRes, shellFetches, skipWaiting, activateVars,
                   fetchVars>>

\* addAll rejects: a resource is unreachable or answered with a bad status
InstallReject ==
    /\ installPc = "adding"
    /\ \E i \in ShellIdx : shellRes[i] = Failed
                            \/ (shellRes[i] \in NetResponses /\ ~Ok(shellRes[i]))
    /\ installPc' = "rejected"
    /\ UNCHANGED <<cacheVars, shellRes, shellFetches, skipWaiting,
                   activateVars, fetchVars>>

\* .then(() => self.skipWaiting())
InstallSkipWaiting ==
    /\ installPc = "added"
    /\ skipWaiting' = TRUE
    /\ installPc' = "done"
    /\ UNCHANGED <<cacheVars, shellRes, shellFetches, activateVars,
                   fetchVars>>

(***************************************************************************)
(* activate handler                                                        *)
(***************************************************************************)
\* a filter with the negation lost
StaleKeysInverted(keys) == {k \in keys : k \in {STATIC_CACHE, RUNTIME_CACHE}}

\* a filter that spares the static name only
StaleKeysStaticOnly(keys) == {k \in keys : k \notin {STATIC_CACHE}}

\* keys.filter(k => ![STATIC_CACHE, RUNTIME_CACHE].includes(k))
StaleKeys(keys) == {k \in keys : k \notin {STATIC_CACHE, RUNTIME_CACHE}}

\* caches.keys() resolves; caches.delete is called for every stale name
ActivateKeys ==
    /\ installPc = "done"
    /\ activatePc = "start"
    /\ delPending' = StaleKeys(Live(order))
    /\ activatePc' = "deleting"
    /\ UNCHANGED <<cacheVars, installVars, claimed, fetchVars>>

\* caches.keys() rejects
ActivateKeysReject ==
    /\ installPc = "done"
    /\ activatePc = "start"
    /\ activatePc' = "rejected"
    /\ UNCHANGED <<cacheVars, installVars, delPending, claimed, fetchVars>>

\* one caches.delete(k) resolves
DeleteDone(k) ==
    /\ k \in delPending
    /\ order' = CachesDelete(order, k)
    /\ entries' = [entries EXCEPT ![k] = EmptyCache]
    /\ delPending' = delPending \ {k}
    /\ UNCHANGED <<installVars, activatePc, claimed, fetchVars>>

\* one caches.delete(k) rejects: Promise.all rejects, the others go on
DeleteReject(k) ==
    /\ k \in delPending
    /\ delPending' = delPending \ {k}
    /\ activatePc' = IF activatePc = "deleting" THEN "rejected" ELSE activatePc
    /\ UNCHANGED <<cacheVars, installVars, claimed, fetchVars>>

\* a claim that does not wait for the deletions
ActivateClaimEarly ==
    /\ activatePc = "deleting"
    /\ claimed' = TRUE
    /\ activatePc' = "done"
    /\ UNCHANGED <<cacheVars, installVars, delPending, fetchVars>>

\* Promise.all resolved: .then(() => self.clients.claim())
ActivateClaim ==
    /\ activatePc = "deleting"
    /\ delPending = {}
    /\ claimed' = TRUE
    /\ activatePc' = "done"
    /\ UNCHANGED <<cacheVars, installVars, delPending, fetchVars>>

\* the worker is active (the host activates it once the promise given to
\* waitUntil has settled) and fetch events are dispatched to it
Active == activatePc \in {"done", "rejected"}

(***************************************************************************)
(* fetch handler                                                           *)
(***************************************************************************)
Set(h, rec) == handlers' = [handlers EXCEPT ![h] = rec]

\* the synchronous part of the handler: the method guard and the choice of
\* the branch, up to the first asynchronous call of the branch
HandlerStart(method, url) ==
    LET b == Branch(method, url)
        fresh == [IdleHandler EXCEPT !.method = method, !.url = url]
    IN  IF b \in {"guard", "unmatched"}
            THEN [fresh EXCEPT !.pc = "passthrough"]
        ELSE IF b = "api"
            THEN [fresh EXCEPT !.pc = "fetch", !.fetches = 1]
        ELSE [fresh EXCEPT !.pc = "match", !.looked = TRUE]

\* a fetch event is dispatched to the worker; the invocations are numbered
\* in the order of their events
FetchEvent(h, method, url) ==
    /\ Active
    /\ handlers[h].pc = "idle"
    /\ \A j \in Slots : j < h => handlers[j].pc # "idle"
    /\ Set(h, HandlerStart(method, url))
    /\ UNCHANGED <<cacheVars, installVars, activateVars, lastOk>>

\* a cache hit that also refreshes the entry from the network
CacheHitWithRefresh(h) ==
    LET cached == CachesMatch(order, entries, KeyOf(h))
    IN  /\ handlers[h].pc = "match"
        /\ cached # Undefined
        /\ Set(h, [handlers[h] EXCEPT !.cached = cached, !.pc = "settled",
                                      !.out = "response",
                                      !.delivered = cached,
                                      !.fetches = @ + 1, !.res = cached,
                                      !.store = "open"])
        /\ UNCHANGED <<cacheVars, installVars, activateVars, lastOk>>

\* root page and static branches, caches.match(request) found an entry:
\* cached || ... is the cached entry
CacheHit(h) ==
    LET cached == CachesMatch(order, entries, KeyOf(h))
    IN  /\ handlers[h].pc = "match"
        /\ cached # Undefined
        /\ Set(h, [handlers[h] EXCEPT !.cached = cached, !.pc = "settled",
                                      !.out = "response",
                                      !.delivered = cached])
        /\ UNCHANGED <<cacheVars, installVars, activateVars, lastOk>>

\* root page and static branches, caches.match(request) found nothing:
\* cached || fetch(request) issues the network fetch
CacheMiss(h) ==
    /\ handlers[h].pc = "match"
    /\ CachesMatch(order, entries, KeyOf(h)) = Undefined
    /\ Set(h, [handlers[h] EXCEPT !.pc = "fetch", !.fetches = @ + 1])
    /\ UNCHANGED <<cacheVars, installVars, activateVars, lastOk>>

\* fetch(request) resolves with res: the .then callback calls caches.open
\* when the branch stores, and returns res, which settles the promise given
\* to respondWith
NetResolve(h, res) ==
    /\ handlers[h].pc = "fetch"
    /\ Set(h, [handlers[h] EXCEPT
                 !.res = res, !.pc = "settled", !.out = "response",
                 !.delivered = res,
                 !.store = IF Stores(BranchOf(h), res) THEN "open" ELSE "none"])
    /\ lastOk' = IF Ok(res) /\ KeyOf(h) \in ApiKeys
                    THEN [lastOk EXCEPT ![KeyOf(h)] = res] ELSE lastOk
    /\ UNCHANGED <<cacheVars, installVars, activateVars>>

\* a root page branch without its catch
OnNetFailPropagate(branch, rec) ==
    IF branch = "api"
        THEN [rec EXCEPT !.pc = "fallback", !.looked = TRUE]
    ELSE [rec EXCEPT !.pc = "settled", !.out = "rejected"]

\* a static branch with the catch of the root page branch
OnNetFailAbsorbAll(branch, rec) ==
    IF branch = "api"
        THEN [rec EXCEPT !.pc = "fallback", !.looked = TRUE]
    ELSE [rec EXCEPT !.pc = "settled",
                     !.out = IF rec.cached = Undefined THEN "undefined"
                             ELSE "response",
                     !.delivered = rec.cached]

\* what the promise given to respondWith does when fetch(request) rejects
OnNetFail(branch, rec) ==
    IF branch = "root"
        THEN [rec EXCEPT !.pc = "settled",
                         !.out = IF rec.cached = Undefined THEN "undefined"
                                 ELSE "response",
                         !.delivered = rec.cached]
    ELSE IF branch = "api"
        THEN [rec EXCEPT !.pc = "fallback", !.looked = TRUE]
    ELSE [rec EXCEPT !.pc = "settled", !.out = "rejected"]

\* a failure handling that fetches once more before giving up
NetFailRetry(h) ==
    /\ handlers[h].pc = "fetch"
    /\ Set(h, IF handlers[h].fetches < 2
                THEN [handlers[h] EXCEPT !.fetches = @ + 1]
                ELSE OnNetFail(BranchOf(h), handlers[h]))
    /\ UNCHANGED <<cacheVars, installVars, activateVars, lastOk>>

\* fetch(request) rejects: a connectivity failure
NetFail(h) ==
    /\ handlers[h].pc = "fetch"
    /\ Set(h, OnNetFail(BranchOf(h), handlers[h]))
    /\ UNCHANGED <<cacheVars, installVars, activateVars, lastOk>>

\* dynamic branch, .catch(() => caches.match(request)) resolves
Fallback(h) ==
    LET found == CachesMatch(order, entries, KeyOf(h))
    IN  /\ handlers[h].pc = "fallback"
        /\ Set(h, [handlers[h] EXCEPT
                     !.cached = found, !.pc = "settled",
                     !.out = IF found = Undefined THEN "undefined"
                             ELSE "response",
                     !.delivered = found])
        /\ UNCHANGED <<cacheVars, installVars, activateVars, lastOk>>

\* the caller reads the body of the network response it was given, while
\* the store of that response has not taken its clone yet
ConsumeBody(h) ==
    /\ handlers[h].pc = "settled"
    /\ handlers[h].out = "response"
    /\ handlers[h].store = "open"
    /\ Set(h, [handlers[h] EXCEPT !.store = "spent"])
    /\ UNCHANGED <<cacheVars, installVars, activateVars, lastOk>>

\* caches.open(..) of the store resolves and its callback runs
\* cache.put(request, res.clone()); clone() throws on a body already read
StoreOpened(h) ==
    /\ handlers[h].store \in {"open", "spent"}
    /\ order' = CachesOpen(order, StoreName(BranchOf(h)))
    /\ Set(h, [handlers[h] EXCEPT
                 !.store = IF handlers[h].store = "spent" THEN "failed"
                           ELSE "put"])
    /\ UNCHANGED <<entries, installVars, activateVars, lastOk>>

\* cache.put resolves: the entry is written
StorePut(h) ==
    /\ handlers[h].store = "put"
    /\ entries' = CachePut(entries, StoreName(BranchOf(h)), KeyOf(h),
                           handlers[h].res)
    /\ Set(h, [handlers[h] EXCEPT !.store = "stored"])
    /\ UNCHANGED <<order, installVars, activateVars, lastOk>>

\* cache.put rejects (quota exceeded): nobody observes it
StoreReject(h) ==
    /\ handlers[h].store = "put"
    /\ Set(h, [handlers[h] EXCEPT !.store = "failed"])
    /\ UNCHANGED <<cacheVars, installVars, activateVars, lastOk>>

(***************************************************************************)
(* Specification                                                           *)
(***************************************************************************)
Next ==
    \/ InstallOpen
    \/ \E i \in ShellIdx, res \in InstallOutcomes : InstallFetched(i, res)
    \/ InstallCommit
    \/ InstallReject
    \/ InstallSkipWaiting
    \/ ActivateKeys
    \/ ActivateKeysReject
    \/ \E k \in Names : DeleteDone(k)
    \/ \E k \in Names : DeleteReject(k)
    \/ ActivateClaim
    \/ \E h \in Slots, r \in Requests : FetchEvent(h, r.method, r.url)
    \/ \E h \in Slots : CacheHit(h)
    \/ \E h \in Slots : CacheMiss(h)
    \/ \E h \in Slots, res \in NetResponses : NetResolve(h, res)
    \/ \E h \in Slots : NetFail(h)
    \/ \E h \in Slots : Fallback(h)
    \/ \E h \in Slots : ConsumeBody(h)
    \/ \E h \in Slots : StoreOpened(h)
    \/ \E h \in Slots : StorePut(h)
    \/ \E h \in Slots : StoreReject(h)

Spec == Init /\ [][Next]_vars

\* the asynchronous steps of one invocation that settle the promise given
\* to respondWith: the lookups and the network fetch
HandlerStep(h) ==
    \/ CacheHit(h)
    \/ CacheMiss(h)
    \/ \E res \in NetResponses : NetResolve(h, res)
    \/ NetFail(h)
    \/ Fallback(h)

\* every cache lookup and every network fetch eventually settles
SpecFair == Spec /\ \A h \in Slots : WF_vars(HandlerStep(h))

(***************************************************************************)
(* Properties                                                              *)
(***************************************************************************)
\* a dynamic-endpoint invocation that was answered 200 by the network
Api200(h) ==
    /\ BranchOf(h) = "api"
    /\ handlers[h].pc = "settled"
    /\ handlers[h].res.status = 200

\* C1, as claimed: once a GET to a dynamic endpoint that the network
\* answered with 200 has delivered its response to the caller, the runtime
\* namespace holds an entry for the request equal to that response.
C1_EntryAtDelivery ==
    \A h \in Slots :
        Api200(h) => entries[RUNTIME_CACHE][KeyOf(h)] = handlers[h].res

\* C1, amended: when such an invocation delivers its response the store into
\* the runtime namespace has been started, and the step that completes the
\* put of that store leaves the runtime namespace live and holding an entry
\* for the request equal to that response.
C1_EntryOncePutCompletes ==
    /\ [](\A h \in Slots : Api200(h) => handlers[h].store # "none")
    /\ [][\A h \in Slots :
            (Api200(h) /\ handlers[h].store = "put"
                       /\ handlers'[h].store = "stored")
            => /\ RUNTIME_CACHE \in Live(order')
               /\ entries'[RUNTIME_CACHE][KeyOf(h)] = handlers[h].res]_vars

C1_Witness ==
    \E h \in Slots :
        /\ Api200(h)
        /\ handlers[h].store = "stored"
        /\ entries[RUNTIME_CACHE][KeyOf(h)] = handlers[h].res

\* the step in which the fallback lookup of a dynamic-endpoint invocation
\* resolves, after the network fetch failed
FallbackStep(h) ==
    /\ BranchOf(h) = "api"
    /\ handlers[h].pc = "fallback"
    /\ handlers'[h].pc = "settled"

\* C2, as claimed: when the network fetch of a GET to a dynamic endpoint
\* fails, the response returned is the runtime namespace's entry for the
\* request, which is the latest successful network response to it, or the
\* undefined result when the runtime namespace holds no entry.
C2_FallbackIsLatestResponse ==
    [][\A h \in Slots :
        FallbackStep(h) =>
            LET e == entries[RUNTIME_CACHE][KeyOf(h)]
            IN  /\ handlers'[h].delivered = e
                /\ (e # Undefined /\ lastOk[KeyOf(h)] # Undefined)
                        => e = lastOk[KeyOf(h)]]_vars

\* a root-page invocation whose lookup found an entry
RootHit(h) ==
    /\ BranchOf(h) = "root"
    /\ handlers[h].cached # Undefined

\* C3, as claimed: a GET to the root page for which a cached entry exists
\* issues a network fetch besides returning the cached entry.
C3_RootHitRefreshes ==
    \A h \in Slots : RootHit(h) => handlers[h].fetches >= 1

\* C3, amended: a GET to the root page for which a cached entry exists
\* returns that entry, issues no network fetch and starts no store.
C3_RootHitNoRefresh ==
    \A h \in Slots :
        RootHit(h) =>
            /\ handlers[h].pc = "settled"
            /\ handlers[h].out = "response"
            /\ handlers[h].delivered = handlers[h].cached
            /\ handlers[h].fetches = 0
            /\ handlers[h].store = "none"

\* two root-page invocations, one after the other, both served from cache
C3_Witness ==
    \E h, g \in Slots :
        /\ h < g
        /\ RootHit(h) /\ RootHit(g)
        /\ KeyOf(h) = KeyOf(g)
        /\ handlers[g].delivered = handlers[h].delivered

\* C4: when the lookup of a GET to the root page resolves while the static
\* namespace holds an entry for the request, the response returned is that
\* entry, and no network fetch is issued or waited for.
C4_RootServesStaticEntry ==
    [][\A h \in Slots :
        (/\ BranchOf(h) = "root"
         /\ handlers[h].pc = "match"
         /\ handlers'[h].pc # "match"
         /\ entries[STATIC_CACHE][KeyOf(h)] # Undefined)
        => /\ handlers'[h].pc = "settled"
           /\ handlers'[h].fetches = 0
           /\ handlers'[h].delivered = entries[STATIC_CACHE][KeyOf(h)]]_vars

\* C5, as claimed: after the activate handler has completed, the live
\* namespaces are exactly the static and the runtime one.
C5_LiveIsExactlyCurrentPair ==
    activatePc = "done" => Live(order) = {STATIC_CACHE, RUNTIME_CACHE}

\* C5, amended: after the activate handler has completed, the static
\* namespace is live and every live namespace bears the static or the
\* runtime name.
C5_LiveWithinCurrentPair ==
    activatePc = "done" =>
        /\ STATIC_CACHE \in Live(order)
        /\ Live(order) \subseteq {STATIC_CACHE, RUNTIME_CACHE}

C5_Witness ==
    /\ activatePc = "done"
    /\ claimed
    /\ Live(order) = {STATIC_CACHE}

\* a step of the activate handler or of a deletion it requested
ActivateStep == activatePc' # activatePc \/ delPending' # delPending

\* C6: the activate handler requests the deletion of exactly the live
\* namespaces that bear neither the static nor the runtime name, and no step
\* of the activation changes whether the static or the runtime namespace is
\* live, or any entry in them.
C6_ActivateFrame ==
    /\ [][(activatePc = "start" /\ activatePc' = "deleting")
            => delPending' = Live(order) \ {STATIC_CACHE, RUNTIME_CACHE}]_vars
    /\ [][ActivateStep =>
            \A n \in {STATIC_CACHE, RUNTIME_CACHE} :
                /\ entries'[n] = entries[n]
                /\ (n \in Live(order')) = (n \in Live(order))]_vars

\* one stale namespace is gone, the other is about to go, and the static
\* namespace still holds what the install stored
C6_Witness ==
    /\ activatePc = "deleting"
    /\ delPending = {OLD_RUNTIME}
    /\ OLD_STATIC \notin Live(order)
    /\ STATIC_CACHE \in Live(order)
    /\ \A i \in ShellIdx : entries[STATIC_CACHE][APP_SHELL[i]] = shellRes[i]

\* C7: once addAll has resolved, and so whenever skip-waiting has been
\* signalled, the static namespace is live and holds a successfully fetched
\* response for every resource of the app-shell list.
C7_ShellStoredAfterInstall ==
    (installPc \in {"added", "done"} \/ skipWaiting) =>
        /\ STATIC_CACHE \in Live(order)
        /\ \A i \in ShellIdx :
              /\ entries[STATIC_CACHE][APP_SHELL[i]] # Undefined
              /\ Ok(entries[STATIC_CACHE][APP_SHELL[i]])

C7_Witness ==
    /\ installPc = "done"
    /\ skipWaiting
    /\ \A i \in ShellIdx : entries[STATIC_CACHE][APP_SHELL[i]] = shellRes[i]

\* C8: no step of an install changes an entry of any namespace unless it is
\* the step in which addAll resolves; an install one of whose resources is
\* unreachable never gets there; an install that rejected has not signalled
\* skip-waiting and has fetched every resource at most once, and nothing
\* happens after it.
C8_InstallAllOrNothing ==
    /\ [][(installPc \in {"start", "adding"} /\ installPc' # "added")
            => entries' = entries]_vars
    /\ []((\E i \in ShellIdx : shellRes[i] = Failed) =>
            /\ installPc \in {"adding", "rejected"}
            /\ ~skipWaiting)
    /\ [](installPc = "rejected" =>
            /\ ~skipWaiting
            /\ \A i \in ShellIdx : shellFetches[i] <= 1)
    /\ [][installPc = "rejected" =>
            /\ installPc' = "rejected"
            /\ entries' = entries
            /\ shellFetches' = shellFetches
            /\ skipWaiting' = skipWaiting]_vars

\* an install that rejected although one resource had been fetched
C8_Witness ==
    /\ installPc = "rejected"
    /\ \E i, j \in ShellIdx :
          /\ shellRes[i] \in NetResponses /\ Ok(shellRes[i])
          /\ shellRes[j] = Failed
          /\ entries[STATIC_CACHE][APP_SHELL[i]] = Undefined

\* C9: an invocation for a request whose method is not GET has returned
\* without giving the event a response, has made no cache lookup, issued no
\* network fetch and started no store.
C9_NonGetUntouched ==
    \A h \in Slots :
        (handlers[h].pc # "idle" /\ handlers[h].method # "GET") =>
            /\ handlers[h].pc = "passthrough"
            /\ handlers[h].out = "none"
            /\ ~handlers[h].looked
            /\ handlers[h].fetches = 0
            /\ handlers[h].store = "none"

\* a POST to a URL for which a namespace holds an entry
C9_Witness ==
    \E h \in Slots :
        /\ handlers[h].pc = "passthrough"
        /\ handlers[h].method = "POST"
        /\ CachesMatch(order, entries, KeyOf(h)) # Undefined

\* a dynamic-endpoint invocation that the network answered with a status
\* that is not 2xx
ApiHttpError(h) ==
    /\ BranchOf(h) = "api"
    /\ handlers[h].res \in NetResponses
    /\ ~Ok(handlers[h].res)

\* C10: a GET to a dynamic endpoint that the network answered with a status
\* that is not 2xx returns that response, makes no cache lookup and starts
\* no store.
C10_HttpErrorReturnedAsIs ==
    \A h \in Slots :
        ApiHttpError(h) =>
            /\ handlers[h].pc = "settled"
            /\ handlers[h].out = "response"
            /\ handlers[h].delivered = handlers[h].res
            /\ ~handlers[h].looked
            /\ handlers[h].store = "none"

\* the error response was returned although the runtime namespace holds an
\* entry for the request
C10_Witness ==
    \E h \in Slots :
        /\ ApiHttpError(h)
        /\ handlers[h].pc = "settled"
        /\ entries[RUNTIME_CACHE][KeyOf(h)] # Undefined

\* a static-asset invocation whose lookup found nothing and whose network
\* fetch was answered
StaticFetched(h) ==
    /\ BranchOf(h) = "static"
    /\ handlers[h].pc = "settled"
    /\ handlers[h].res \in NetResponses

\* C11, as claimed: once a GET to a /static/ path that found no cached
\* entry has returned the network response to the caller, the static
\* namespace holds an entry for the request.
C11_StaticEntryAtDelivery ==
    \A h \in Slots :
        StaticFetched(h) => entries[STATIC_CACHE][KeyOf(h)] # Undefined

\* C11, amended: when such an invocation returns the network response the
\* store into the static namespace has been started, and the step that
\* completes the put of that store leaves the static namespace live and
\* holding that response for the request.
C11_StaticEntryOncePutCompletes ==
    /\ [](\A h \in Slots : StaticFetched(h) => handlers[h].store # "none")
    /\ [][\A h \in Slots :
            (StaticFetched(h) /\ handlers[h].store = "put"
                              /\ handlers'[h].store = "stored")
            => /\ STATIC_CACHE \in Live(order')
               /\ entries'[STATIC_CACHE][KeyOf(h)] = handlers[h].res]_vars

C11_Witness ==
    \E h \in Slots :
        /\ StaticFetched(h)
        /\ handlers[h].cached = Undefined
        /\ handlers[h].store = "stored"
        /\ entries[STATIC_CACHE][KeyOf(h)] = handlers[h].res

\* an invocation whose lookup found nothing and whose one network fetch
\* failed, and whose promise has settled
MissThenNetFailed(h, branch) ==
    /\ BranchOf(h) = branch
    /\ handlers[h].pc = "settled"
    /\ handlers[h].looked
    /\ handlers[h].cached = Undefined
    /\ handlers[h].fetches >= 1
    /\ handlers[h].res = Undefined

\* C12, as claimed: for a GET to the root page with no cached entry whose
\* network fetch fails, the promise given to the event rejects.
C12_RootMissFailRejects ==
    \A h \in Slots :
        MissThenNetFailed(h, "root") => handlers[h].out = "rejected"

\* C12, amended: for a GET to the root page with no cached entry whose
\* network fetch fails, the promise given to the event resolves with the
\* undefined result of the lookup; nothing is stored.
C12_RootMissFailResolvesUndefined ==
    \A h \in Slots :
        MissThenNetFailed(h, "root") =>
            /\ handlers[h].out = "undefined"
            /\ handlers[h].delivered = Undefined
            /\ handlers[h].store = "none"
            /\ handlers[h].fetches = 1

C12_Witness ==
    \E h \in Slots :
        /\ MissThenNetFailed(h, "root")
        /\ handlers[h].out = "undefined"

\* the namespace the lookups of a branch are meant for
RoleName(branch) == IF branch = "api" THEN RUNTIME_CACHE ELSE STATIC_CACHE

\* the step in which a cache lookup of an invocation resolves with an entry
LookupReturns(h) ==
    /\ handlers[h].pc \in {"match", "fallback"}
    /\ handlers'[h].pc = "settled"
    /\ handlers'[h].out = "response"

\* C13: every entry a lookup returns is the entry the namespace of the
\* branch's role holds for the request: the static namespace for the root
\* page and for /static/ paths, the runtime namespace for the fallback of a
\* dynamic endpoint.
C13_LookupsRoleSpecific ==
    [][\A h \in Slots :
        LookupReturns(h) =>
            handlers'[h].delivered = entries[RoleName(BranchOf(h))][KeyOf(h)]]_vars

\* the store of an invocation has been started and has not settled
StorePending(h) == handlers[h].store \in {"open", "spent", "put"}

\* C14, as claimed: the promise an invocation gave to the event does not
\* settle before the store of that invocation has settled.
C14_PromiseOutlivesStore ==
    \A h \in Slots : handlers[h].pc = "settled" => ~StorePending(h)

\* C15: clients are claimed only once the activation has listed the
\* namespaces and every deletion it requested has resolved, so that no
\* stale namespace is live; when the listing or a deletion rejected, which
\* leaves a stale namespace that no pending deletion will remove, the
\* activation promise has rejected and clients are never claimed.
C15_ClaimAfterDeletions ==
    /\ [](claimed =>
            /\ activatePc = "done"
            /\ delPending = {}
            /\ Live(order) \subseteq {STATIC_CACHE, RUNTIME_CACHE})
    /\ []((/\ activatePc # "start"
           /\ \E n \in Live(order) \ {STATIC_CACHE, RUNTIME_CACHE} :
                  n \notin delPending)
          => (activatePc = "rejected" /\ ~claimed))
    /\ [][activatePc = "rejected" =>
            (activatePc' = "rejected" /\ ~claimed')]_vars

\* one deletion resolved, the other rejected: not claimed
C15_Witness ==
    /\ activatePc = "rejected"
    /\ ~claimed
    /\ delPending = {}
    /\ OLD_RUNTIME \notin Live(order)
    /\ OLD_STATIC \in Live(order)

\* C16: for a GET to a /static/ path with no cached entry whose network
\* fetch fails, the promise given to the event rejects, the fetch was issued
\* once, and the invocation starts no store.
C16_StaticMissFailRejects ==
    \A h \in Slots :
        MissThenNetFailed(h, "static") =>
            /\ handlers[h].out = "rejected"
            /\ handlers[h].delivered = Undefined
            /\ handlers[h].fetches = 1
            /\ handlers[h].store = "none"

\* the rejection reached the caller and no namespace holds the request
C16_Witness ==
    \E h \in Slots :
        /\ MissThenNetFailed(h, "static")
        /\ handlers[h].out = "rejected"
        /\ \A n \in Names : entries[n][KeyOf(h)] = Undefined

\* paths around the edges of the prefixes, with the branch a GET to each
\* is handled by
Probes ==
    { <<"/", "root">>,
      <<"/index.html", "unmatched">>,
      <<"/attendance", "api">>,
      <<"/attendance/2024-01", "api">>,
      <<"/attendance_export", "api">>,
      <<"/Attendance", "unmatched">>,
      <<"/api/attendance", "unmatched">>,
      <<"/export.xlsx", "api">>,
      <<"/export.xlsx.bak", "api">>,
      <<"/export", "unmatched">>,
      <<"/justifications_report.xlsx", "api">>,
      <<"/justifications", "unmatched">>,
      <<"/static/app.js", "static">>,
      <<"/static/", "static">>,
      <<"/static", "unmatched">>,
      <<"/staticfiles/a.js", "unmatched">>,
      <<"/other", "unmatched">> }
Searches == {"", "?source=pwa", "?v=2"}

\* the handler returned without calling respondWith
NotIntercepted(h) ==
    /\ handlers[h].pc = "passthrough"
    /\ handlers[h].out = "none"
    /\ handlers[h].delivered = Undefined
    /\ ~handlers[h].looked
    /\ handlers[h].fetches = 0
    /\ handlers[h].store = "none"

\* C17: the classification is a function of method and path alone, first
\* match in the order guard, root, dynamic, static, unmatched; an invocation
\* for a request of the guard or of the unmatched class returns without
\* responding, takes no further step, and no step that starts it changes a
\* cache namespace; every other invocation is intercepted.
C17_ClassificationTotalFirstMatch ==
    /\ [](\A p \in Probes : \A q \in Searches :
            LET url == [pathname |-> p[1], search |-> q]
            IN  /\ Branch("GET", url) = p[2]
                /\ Branch("POST", url) = "guard"
                /\ Branch("GET", url) = "root" <=> IsRoot(url)
                /\ Branch("GET", url) = "api" <=> (~IsRoot(url) /\ IsAPI(url))
                /\ Branch("GET", url) = "static" <=>
                       (~IsRoot(url) /\ ~IsAPI(url) /\ IsStatic(url)))
    /\ [](\A h \in Slots :
            handlers[h].pc # "idle" =>
                /\ BranchOf(h) \in {"guard", "unmatched"} <=> NotIntercepted(h)
                /\ BranchOf(h) \in {"root", "api", "static"} <=>
                       handlers[h].pc # "passthrough")
    /\ [][\A h \in Slots :
            /\ handlers[h].pc = "passthrough" => handlers'[h] = handlers[h]
            /\ (handlers[h].pc = "idle" /\ handlers'[h].pc = "passthrough")
                   => UNCHANGED cacheVars]_vars

\* a GET to /other went through untouched while the namespaces hold entries
C17_Witness ==
    \E h \in Slots :
        /\ handlers[h].method = "GET"
        /\ handlers[h].url.pathname = "/other"
        /\ NotIntercepted(h)
        /\ entries[STATIC_CACHE]["/"] # Undefined

\* the invocation has called respondWith and its promise has not settled
InFlight(h) == handlers[h].pc \in {"match", "fetch", "fallback"}

\* the promise given to the event settled: a response, the undefined
\* result of a lookup, or a rejection
Yielded(h) ==
    /\ handlers[h].pc = "settled"
    /\ handlers[h].out \in {"response", "undefined", "rejected"}

\* C18: when every lookup and every network fetch eventually settles, each
\* intercepted GET eventually yields a response, an empty result or a
\* rejection to the caller and stays settled; an invocation issues at most
\* one network fetch.
C18_EveryInterceptedGetSettles ==
    /\ [](\A h \in Slots :
            /\ handlers[h].fetches <= 1
            /\ handlers[h].pc = "settled" => Yielded(h))
    /\ \A h \in Slots : InFlight(h) ~> Yielded(h)
    /\ [][\A h \in Slots : Yielded(h) =>
            /\ handlers'[h].pc = "settled"
            /\ handlers'[h].out = handlers[h].out
            /\ handlers'[h].fetches = handlers[h].fetches]_vars

\* a dynamic request: the lookup, the one fetch and its failure, the
\* fallback lookup, then the empty result
C18_Witness ==
    \E h \in Slots :
        /\ BranchOf(h) = "api"
        /\ Yielded(h)
        /\ handlers[h].out = "undefined"
        /\ handlers[h].fetches = 1

\* C19, as claimed: the clone of a store is never taken from a response
\* whose body the caller has already read, so no store is lost that way:
\* the callback of caches.open never finds the body read.
C19_CloneBeforeBodyRead ==
    [][\A h \in Slots :
         handlers'[h].store = "failed" => handlers[h].store # "spent"]_vars

\* the invocation served a root page or a static asset from the cache
ServedFromCache(h) ==
    /\ BranchOf(h) \in {"root", "static"}
    /\ handlers[h].pc = "settled"
    /\ handlers[h].out = "response"
    /\ handlers[h].fetches = 0
    /\ handlers[h].delivered = handlers[h].cached

\* C20, as claimed: no entry of a current namespace is an HTTP error
\* response, and no root page or static asset request is served an HTTP
\* error response from the cache.
C20_NoErrorResponseCached ==
    /\ \A n \in {STATIC_CACHE, RUNTIME_CACHE} : \A k \in Keys :
           entries[n][k] # Undefined => Ok(entries[n][k])
    /\ \A h \in Slots : ServedFromCache(h) => Ok(handlers[h].delivered)
====
